---- MODULE Spec2Model ----
(***************************************************************************)
(* A model of tmy3.py, the GridLAB-D TMY3 reader: the fetch-or-cache       *)
(* acquisition path (get_data, get_index) and the station-file loader      *)
(* (class TMY3).                                                           *)
(*                                                                         *)
(* A Python str is modelled as a sequence of one-character strings, so     *)
(* that formatting, parsing, splitting and newline translation are         *)
(* computed and not assumed.                                               *)
(***************************************************************************)
EXTENDS Integers, Sequences, FiniteSets, TLC

VARIABLES
    remote,      \* the repository: logical filename -> body served with a 200
    fs,          \* the cache directory: logical filename -> file content or NoFile
    gets,        \* logical filename -> number of requests.get issued for it
    clean,       \* logical filename -> every GET for it so far was answered 200
    firstRet,    \* logical filename -> text returned by the first successful
                 \*   text-mode get_data call, or None
    ncalls,      \* number of calls made so far
    last,        \* record of the last call and its outcome
    cpc,         \* concurrent callers: position of each caller in get_data
    cresp,       \* concurrent callers: r.text held by each caller
    coff,        \* concurrent callers: offset of each caller's open file
    cret,        \* concurrent callers: value returned
    conly,       \* concurrent callers: the cache_filename_only argument
    station,     \* loader: the station file being loaded
    coerce_year, \* loader: the coerce_year argument
    lpc,         \* loader: position in TMY3.__init__
    nread,       \* loader: number of data rows read so far
    prevRow,     \* loader: the decoded row before the last one read
    curRow,      \* loader: the last decoded row
    self,        \* loader: the attributes set on the TMY3 object
    tin,         \* get_time alone: its input
    tout         \*   and its result

cacheVars == <<remote, fs, gets, clean, firstRet, ncalls, last>>
concVars  == <<cpc, cresp, coff, cret, conly>>
loadVars  == <<station, coerce_year, lpc, nread, prevRow, curRow, self>>
timeVars  == <<tin, tout>>
vars == <<remote, fs, gets, clean, firstRet, ncalls, last, cpc, cresp, coff, cret, conly,
          station, coerce_year, lpc, nread, prevRow, curRow, self, tin, tout>>

None == "None"

(***************************************************************************)
(* Text                                                                    *)
(***************************************************************************)
LF == "\n"
CR == "\r"
SP == " "

\* code points of the characters the model uses (Python compares str by code point)
Ord(c) ==
    CASE c = LF -> 10
      [] c = CR -> 13
      [] c = SP -> 32
      [] c = "a" -> 97
      [] c = "b" -> 98

Whitespace == {LF, CR, SP}

\* all texts of length at most n over the alphabet A
Texts(A, n) == UNION {[1..k -> A] : k \in 0..n}

\* str.strip(): leading and trailing whitespace removed
RECURSIVE LStrip(_)
LStrip(s) ==
    IF s # <<>> /\ Head(s) \in Whitespace THEN LStrip(Tail(s)) ELSE s

RECURSIVE RStrip(_)
RStrip(s) ==
    IF s # <<>> /\ s[Len(s)] \in Whitespace
    THEN RStrip(SubSeq(s, 1, Len(s) - 1))
    ELSE s

Strip(s) == RStrip(LStrip(s))

\* str.split(sep) for a one-character separator: always at least one field
RECURSIVE SplitFrom(_, _, _)
SplitFrom(s, sep, field) ==
    IF s = <<>> THEN <<field>>
    ELSE IF Head(s) = sep THEN <<field>> \o SplitFrom(Tail(s), sep, <<>>)
    ELSE SplitFrom(Tail(s), sep, Append(field, Head(s)))

Split(s, sep) == SplitFrom(s, sep, <<>>)

\* s < t in the order Python gives str: by code point, a proper prefix first
RECURSIVE StrLess(_, _)
StrLess(s, t) ==
    IF t = <<>> THEN FALSE
    ELSE IF s = <<>> THEN TRUE
    ELSE IF Ord(Head(s)) # Ord(Head(t)) THEN Ord(Head(s)) < Ord(Head(t))
    ELSE StrLess(Tail(s), Tail(t))

\* sorted(list): insertion of each element into a sorted list
RECURSIVE Insert(_, _)
Insert(x, l) ==
    IF l = <<>> THEN <<x>>
    ELSE IF StrLess(Head(l), x) \/ Head(l) = x THEN <<Head(l)>> \o Insert(x, Tail(l))
    ELSE <<x>> \o l

RECURSIVE Sorted(_)
Sorted(l) == IF l = <<>> THEN <<>> ELSE Insert(Head(l), Sorted(Tail(l)))

(***************************************************************************)
(* Text-mode file I/O (open(..., "wt") / open(..., "rt"), newline=None)     *)
(***************************************************************************)
linesep == <<LF>>     \* os.linesep where HOME-based paths are used (POSIX)

\* f.write(text) in text mode: every "\n" is written as os.linesep
RECURSIVE TextWrite(_)
TextWrite(text) ==
    IF text = <<>> THEN <<>>
    ELSE (IF Head(text) = LF THEN linesep ELSE <<Head(text)>>) \o TextWrite(Tail(text))

\* f.read() in text mode: universal newlines, "\r\n" and "\r" are read as "\n"
RECURSIVE TextRead(_)
TextRead(data) ==
    IF data = <<>> THEN <<>>
    ELSE IF Head(data) = CR
         THEN <<LF>> \o
              (IF Len(data) >= 2 /\ data[2] = LF
               THEN TextRead(Tail(Tail(data)))
               ELSE TextRead(Tail(data)))
    ELSE <<Head(data)>> \o TextRead(Tail(data))

(***************************************************************************)
(* The content cache: get_data                                             *)
(***************************************************************************)
MaxCalls == 3        \* calls made in one run
MaxBody == 1         \* length of a remote body in the sequential cache runs
MaxIndexLen == 3     \* length of the remote index file in the get_index runs

\* config (the defaults of the module) and the names used in the runs
index_name == ".index"
station_name == "AK-Adak_Nas.tmy3"
Names == {index_name, station_name}

cache_dir == "~/.gridlabd-weather/data"
cache_file(filename) == <<cache_dir, filename>>

NoFile == [exists |-> FALSE, data |-> <<>>]
File(data) == [exists |-> TRUE, data |-> data]

\* os.path.exists(cache_file)
exists(fsv, filename) == fsv[filename].exists

StatusCodes == {200, 404, 500}

\* what requests.get(url) can give for the url of `filename`: a response with
\* a status code (the body of the file with a 200), or an exception raised
\* by the transport (requests.exceptions.ConnectionError), no response at all
Responses(filename) ==
    {[kind |-> "response", status_code |-> c,
      text |-> IF c = 200 THEN remote[filename] ELSE <<>>] : c \in StatusCodes}
    \cup {[kind |-> "raise", exc |-> "ConnectionError"]}

Return(v) == [kind |-> "return", value |-> v]
Raise(exc, args) == [kind |-> "raise", exc |-> exc, args |-> args]
PathValue(filename) == [type |-> "path", v |-> cache_file(filename)]
TextValue(text) == [type |-> "text", v |-> text]

\* the cache-hit branch of get_data
CacheHit(fsv, filename, only) ==
    [fs |-> fsv, get |-> FALSE,
     out |-> Return(IF only THEN PathValue(filename)
                    ELSE TextValue(TextRead(fsv[filename].data)))]

\* the r.status_code == 200 branch of get_data
Store(fsv, filename, only, r) ==
    [fs |-> [fsv EXCEPT ![filename] = File(TextWrite(r.text))], get |-> TRUE,
     out |-> Return(IF only THEN PathValue(filename) ELSE TextValue(r.text))]

\* a slip NotFound could have: the cache file opened for writing before the
\* status is looked at, so that a failed fetch leaves an empty file behind
NotFoundLeavesFile(fsv, filename) ==
    [fs |-> [fsv EXCEPT ![filename] = File(<<>>)], get |-> TRUE,
     out |-> Raise("OSError", <<2, "file not found", cache_file(filename)>>)]

\* the else branch of get_data
NotFound(fsv, filename) ==
    [fs |-> fsv, get |-> TRUE,
     out |-> Raise("OSError", <<2, "file not found", cache_file(filename)>>)]

\* requests.get raised: nothing in get_data catches it
Propagate(fsv, r) ==
    [fs |-> fsv, get |-> TRUE, out |-> Raise(r.exc, <<>>)]

\* get_data(filename, cache_filename_only) on the cache directory fsv, where
\* r is what requests.get gives if it is called: the directory afterwards,
\* whether a GET was issued, and the outcome of the call
get_data(fsv, filename, only, r) ==
    IF exists(fsv, filename) THEN CacheHit(fsv, filename, only)
    ELSE IF r.kind = "raise" THEN Propagate(fsv, r)
    ELSE IF r.status_code = 200 THEN Store(fsv, filename, only, r)
    ELSE NotFound(fsv, filename)

\* get_index() on the outcome of its get_data call
IndexOf(out) ==
    IF out.kind = "return"
    THEN Return([type |-> "list", v |-> Sorted(Split(Strip(out.value.v), LF))])
    ELSE out

Answered200(r) == r.kind = "response" /\ r.status_code = 200

\* the bookkeeping of one call: counters and the record of the call
Record(op, filename, only, r, res, out) ==
    /\ fs' = res.fs
    /\ gets' = [gets EXCEPT ![filename] = IF res.get THEN @ + 1 ELSE @]
    /\ clean' = [clean EXCEPT ![filename] = @ /\ (res.get => Answered200(r))]
    /\ firstRet' =
         IF op = "get_data" /\ out.kind = "return" /\ firstRet[filename][only] = <<>>
         THEN [firstRet EXCEPT ![filename][only] = <<out.value>>]
         ELSE firstRet
    /\ ncalls' = ncalls + 1
    /\ last' = [op |-> op, filename |-> filename, only |-> only, get |-> res.get,
                r |-> IF res.get THEN <<r>> ELSE <<>>,
                fsBefore |-> fs, getsBefore |-> gets, out |-> out]
    /\ UNCHANGED remote

GetData(filename, only) ==
    /\ ncalls < MaxCalls
    /\ \E r \in Responses(filename) :
         LET res == get_data(fs, filename, only, r)
         IN  Record("get_data", filename, only, r, res, res.out)
    /\ UNCHANGED <<concVars, loadVars, timeVars>>

GetIndex ==
    /\ ncalls < MaxCalls
    /\ \E r \in Responses(index_name) :
         LET res == get_data(fs, index_name, FALSE, r)
         IN  Record("get_index", index_name, FALSE, r, res, IndexOf(res.out))
    /\ UNCHANGED <<concVars, loadVars, timeVars>>

NoCall == [op |-> "none"]

CacheStart(bodies) ==
    /\ remote \in [Names -> bodies]
    /\ fs = [n \in Names |-> NoFile]
    /\ gets = [n \in Names |-> 0]
    /\ clean = [n \in Names |-> TRUE]
    /\ firstRet = [n \in Names |-> [o \in BOOLEAN |-> <<>>]]
    /\ ncalls = 0
    /\ last = NoCall

ConcIdle == cpc = <<>> /\ cresp = <<>> /\ coff = <<>> /\ cret = <<>> /\ conly = <<>>
LoadIdle ==
    /\ station = None /\ coerce_year = None /\ lpc = "idle" /\ nread = 0
    /\ prevRow = None /\ curRow = None /\ self = None
TimeIdle == tin = None /\ tout = <<>>

\* sequential runs of get_data over two logical filenames
InitCache ==
    /\ CacheStart(Texts({"a", CR, LF}, MaxBody))
    /\ ConcIdle /\ LoadIdle /\ TimeIdle

NextCache == \E filename \in Names, only \in BOOLEAN : GetData(filename, only)

SpecCache == InitCache /\ [][NextCache]_vars

\* sequential runs of get_index; the station file is not touched
InitIndex ==
    /\ CacheStart(Texts({"a", "b", SP, CR, LF}, MaxIndexLen))
    /\ remote[station_name] = <<>>
    /\ ConcIdle /\ LoadIdle /\ TimeIdle

NextIndex == GetIndex

SpecIndex == InitIndex /\ [][NextIndex]_vars

(***************************************************************************)
(* Claims about the content cache and the station index                    *)
(***************************************************************************)
LastIs(op) == last.op = op

\* the last call issued a GET that was answered with a status other than 200
FetchFailed ==
    /\ LastIs("get_data") /\ last.get
    /\ last.r[1].kind = "response" /\ last.r[1].status_code # 200

\* the last call issued a GET and the transport raised
TransportFailed ==
    /\ LastIs("get_data") /\ last.get
    /\ last.r[1].kind = "raise"

NotFoundError(filename) ==
    Raise("OSError", <<2, "file not found", cache_file(filename)>>)

\* C1: cache idempotence. For every logical filename whose GETs were all
\* answered 200: at most one GET has been issued for it; a call made when an
\* earlier call had succeeded issued no GET; and every successful call
\* returned what the first successful call of the same kind (content, or
\* cache path) returned.
C1_CacheIdempotence ==
    LastIs("get_data") =>
        LET n == last.filename
        IN  clean[n] =>
              /\ gets[n] <= 1
              /\ exists(last.fsBefore, n) => ~last.get
              /\ last.out.kind = "return" =>
                    last.out.value = firstRet[n][last.only][1]

\* C2: fetch failure. After a call that missed the cache and was answered
\* with a status other than 200, the outcome is OSError(2, "file not found",
\* cache path), the cache directory is what it was before the call and holds
\* no file for the name; and if the next call is for the same name, it
\* issues a GET again.
C2_FetchFailure ==
    /\ [](FetchFailed =>
            /\ last.out = NotFoundError(last.filename)
            /\ fs = last.fsBefore
            /\ ~exists(fs, last.filename))
    /\ [][(FetchFailed /\ last'.filename = last.filename) =>
            (last'.get /\ gets'[last.filename] = gets[last.filename] + 1)]_vars

\* C2 witness: a fetch of a name failed with a non-200 status for the second
\* time, with the other file sitting in the cache directory
C2_Witness ==
    /\ FetchFailed
    /\ gets[last.filename] = 2
    /\ \E n \in Names : n # last.filename /\ exists(fs, n)

\* C9: transport failure. After a call that missed the cache and whose GET
\* raised in the transport, the outcome is the not-found error of a non-200
\* response, with the cache path, and no cache file exists for the name.
C9_TransportFailure ==
    TransportFailed =>
        /\ last.out = NotFoundError(last.filename)
        /\ ~exists(fs, last.filename)

\* the station names of an index file: its lines, trimmed, the empty ones dropped
Trimmed(lines) == [i \in DOMAIN lines |-> Strip(lines[i])]
NonEmpty(name) == name # <<>>
StationNames(content) == SelectSeq(Trimmed(Split(content, LF)), NonEmpty)

\* C6: get_index returns the sorted list of exactly the non-empty, trimmed
\* station names of the index file, and never an empty-string entry.
C6_IndexNames ==
    (LastIs("get_index") /\ last.out.kind = "return") =>
        /\ last.out.value.v = Sorted(StationNames(remote[index_name]))
        /\ \A i \in DOMAIN last.out.value.v : last.out.value.v[i] # <<>>

(***************************************************************************)
(* get_data called by two callers at once for the same uncached name.      *)
(* Each caller runs get_data statement by statement; the cache directory   *)
(* is shared and unlocked.                                                 *)
(***************************************************************************)
MaxConcBody == 2     \* length of the remote body in the concurrent runs
ChunkLen == 1        \* characters that reach the file in one write(2): the
                     \*   buffer size of the file object, scaled down

Callers == {1, 2}
NUL == "NUL"         \* what a hole in a file reads as

Max(a, b) == IF a >= b THEN a ELSE b

\* write(2) of chunk at offset off of a file holding data
WriteAt(data, off, chunk) ==
    [i \in 1..Max(Len(data), off + Len(chunk)) |->
        IF i > off /\ i <= off + Len(chunk) THEN chunk[i - off]
        ELSE IF i <= Len(data) THEN data[i]
        ELSE NUL]

ConcKeep == UNCHANGED <<remote, clean, firstRet, ncalls, last, conly,
                        loadVars, timeVars>>

\* if os.path.exists(cache_file):
CheckExists(p) ==
    /\ cpc[p] = "exists"
    /\ cpc' = [cpc EXCEPT ![p] = IF exists(fs, station_name) THEN "hit" ELSE "get"]
    /\ UNCHANGED <<fs, gets, cresp, coff, cret>>
    /\ ConcKeep

\* the cache-hit branch: the path is returned, or the file is opened and read
ReadHit(p) ==
    /\ cpc[p] = "hit"
    /\ cret' = [cret EXCEPT ![p] = <<CacheHit(fs, station_name, conly[p]).out.value>>]
    /\ cpc' = [cpc EXCEPT ![p] = "done"]
    /\ UNCHANGED <<fs, gets, cresp, coff>>
    /\ ConcKeep

\* r = requests.get(url), answered 200 with the remote body
Fetch(p) ==
    /\ cpc[p] = "get"
    /\ cresp' = [cresp EXCEPT ![p] = remote[station_name]]
    /\ gets' = [gets EXCEPT ![station_name] = @ + 1]
    /\ cpc' = [cpc EXCEPT ![p] = "open"]
    /\ UNCHANGED <<fs, coff, cret>>
    /\ ConcKeep

\* open(cache_file,"wt"): the file is created, or truncated if it is there
OpenWrite(p) ==
    /\ cpc[p] = "open"
    /\ fs' = [fs EXCEPT ![station_name] = File(<<>>)]
    /\ coff' = [coff EXCEPT ![p] = 0]
    /\ cpc' = [cpc EXCEPT ![p] = "write"]
    /\ UNCHANGED <<gets, cresp, cret>>
    /\ ConcKeep

\* f.write(r.text) and the flush when the with block closes the file: the
\* text reaches the file one chunk at a time, at the caller's own offset
WriteChunk(p) ==
    /\ cpc[p] = "write"
    /\ LET text == TextWrite(cresp[p])
           upto == IF coff[p] + ChunkLen <= Len(text) THEN coff[p] + ChunkLen
                   ELSE Len(text)
       IN  /\ fs' = [fs EXCEPT ![station_name] =
                        File(WriteAt(@.data, coff[p], SubSeq(text, coff[p] + 1, upto)))]
           /\ coff' = [coff EXCEPT ![p] = upto]
           /\ cpc' = [cpc EXCEPT ![p] = IF upto = Len(text) THEN "return" ELSE "write"]
    /\ UNCHANGED <<gets, cresp, cret>>
    /\ ConcKeep

\* return cache_file, or return r.text
ReturnFetched(p) ==
    /\ cpc[p] = "return"
    /\ cret' = [cret EXCEPT ![p] = <<IF conly[p] THEN PathValue(station_name)
                                     ELSE TextValue(cresp[p])>>]
    /\ cpc' = [cpc EXCEPT ![p] = "done"]
    /\ UNCHANGED <<fs, gets, cresp, coff>>
    /\ ConcKeep

InitConc ==
    /\ CacheStart(Texts({"a", "b"}, MaxConcBody))
    /\ remote[index_name] = <<>>
    /\ cpc = [p \in Callers |-> "exists"]
    /\ cresp = [p \in Callers |-> <<>>]
    /\ coff = [p \in Callers |-> 0]
    /\ cret = [p \in Callers |-> <<>>]
    /\ conly \in [Callers -> BOOLEAN]
    /\ LoadIdle /\ TimeIdle

NextConc ==
    \E p \in Callers :
        \/ CheckExists(p)
        \/ ReadHit(p)
        \/ Fetch(p)
        \/ OpenWrite(p)
        \/ WriteChunk(p)
        \/ ReturnFetched(p)

SpecConc == InitConc /\ [][NextConc]_vars

\* C10: concurrent first-time fetch. Every caller that has returned from a
\* content call holds the complete remote content, and once both callers have
\* finished the cache file's content is the remote content.
C10_ConcurrentFetch ==
    /\ \A p \in Callers :
         (cpc[p] = "done" /\ ~conly[p]) => cret[p] = <<TextValue(remote[station_name])>>
    /\ (\A p \in Callers : cpc[p] = "done") =>
         fs[station_name] = File(remote[station_name])

\* the second half of C10 alone: what is left in the cache when both are done
ConcFinalContent ==
    (\A p \in Callers : cpc[p] = "done") =>
        fs[station_name] = File(remote[station_name])

(***************************************************************************)
(* The station file and its decoding: class TMY3                           *)
(***************************************************************************)
NRows == 8760        \* nrows of the read of the data block

Digits == <<"0", "1", "2", "3", "4", "5", "6", "7", "8", "9">>
Digit(n) == Digits[n + 1]
DigitVal(c) == CHOOSE n \in 0..9 : Digits[n + 1] = c

\* int(s) of a text of decimal digits
RECURSIVE int(_)
int(s) ==
    IF s = <<>> THEN 0
    ELSE int(SubSeq(s, 1, Len(s) - 1)) * 10 + DigitVal(s[Len(s)])

\* the fields of a station file as they are written: two or four digits
Format2(n) == <<Digit((n \div 10) % 10), Digit(n % 10)>>
Format4(n) == Format2(n \div 100) \o Format2(n % 100)
FormatDate(month, day, year) ==
    Format2(month) \o <<"/">> \o Format2(day) \o <<"/">> \o Format4(year)
FormatTime(hour, minute) == Format2(hour) \o <<":">> \o Format2(minute)

\* the calendar of the datetime module
IsLeap(y) == y % 4 = 0 /\ (y % 100 # 0 \/ y % 400 = 0)
MonthDays == <<31, 28, 31, 30, 31, 30, 31, 31, 30, 31, 30, 31>>
DaysInMonth(y, m) == IF m = 2 /\ IsLeap(y) THEN 29 ELSE MonthDays[m]
ValidDate(y, m, d) ==
    /\ y \in 1..9999 /\ m \in 1..12
    /\ d >= 1 /\ d <= DaysInMonth(y, m)

\* days of a 365-day year before the first of month m
RECURSIVE MonthStart(_)
MonthStart(m) == IF m = 1 THEN 0 ELSE MonthStart(m - 1) + MonthDays[m - 1]

\* A station file: its data block has nrows hourly rows that run from
\* January 1, hour label 1, through the 365 days of a year, the rows of month
\* m dated in the year years[m]; minute is the MM of every time label.
\* The fields of data row i (from 0), as numbers:
RowFields(f, i) ==
    LET doy == (i \div 24) % 365
        month == CHOOSE m \in 1..12 :
                    /\ doy >= MonthStart(m)
                    /\ (m = 12 \/ doy < MonthStart(m + 1))
    IN  [month |-> month, day |-> doy - MonthStart(month) + 1,
         year |-> f.years[month], hour |-> (i % 24) + 1, minute |-> f.minute]

\* and as they stand in the file, in the columns Date (MM/DD/YYYY) and Time (HH:MM)
RowText(f, i) ==
    LET r == RowFields(f, i)
    IN  [date |-> FormatDate(r.month, r.day, r.year),
         time |-> FormatTime(r.hour, r.minute)]

\* the truth value of coerce_year: None, written <<>>, and 0 are false
Truthy(c) == c # <<>> /\ c[1] # 0

\* datetime.datetime.strptime(dt,"%m/%d/%Y")
strptime(dt) ==
    LET f == Split(dt, "/")
    IN  [year |-> int(f[3]), month |-> int(f[1]), day |-> int(f[2])]

\* datetime.replace(year=y)
replace_year(d, y) == [d EXCEPT !.year = y]

\* what get_date would be if it dropped the replace
get_date_unreplaced(dt, c) == strptime(dt)

\* get_date(dt, coerce_year): the date of a Date (MM/DD/YYYY) field
get_date(dt, c) ==
    IF Truthy(c) THEN replace_year(strptime(dt), c[1]) ELSE strptime(dt)

\* what get_time would be if it kept the hour label
get_time_unshifted(dt) == [hour |-> int(Split(dt, ":")[1]) % 24, minute |-> 0]

\* get_time(dt): the time of a Time (HH:MM) field
get_time(dt) == [hour |-> int(Split(dt, ":")[1]) - 1, minute |-> 0]

\* what the DateTime column would be if the hour were left out
DateTimeAtMidnight(x, y) == [year |-> x.year, month |-> x.month, day |-> x.day, hour |-> 0]

\* datetime.datetime(x.year,x.month,x.day,y.hour)
DateTimeOf(x, y) == [year |-> x.year, month |-> x.month, day |-> x.day, hour |-> y.hour]

\* one row of the dataframe: the two converted columns and the DateTime column
DecodeRow(text, c) ==
    LET x == get_date(text.date, c)
        y == get_time(text.time)
    IN  [date |-> x, time |-> y, DateTime |-> DateTimeOf(x, y)]

\* whether the datetime module accepts the values of a decoded row
RowAccepted(row) ==
    /\ ValidDate(row.date.year, row.date.month, row.date.day)
    /\ row.time.hour \in 0..23

\* the rows pandas.read_table reads with nrows=8760: those there are, at most nrows
RowsRead(f) == IF f.nrows < NRows THEN f.nrows ELSE NRows

\* setattr(obj, name, value)
SetAttr(obj, name, value) ==
    [n \in DOMAIN obj \cup {name} |-> IF n = name THEN value ELSE obj[n]]

RECURSIVE SetAttrs(_, _)
SetAttrs(obj, pairs) ==
    IF pairs = <<>> THEN obj
    ELSE SetAttrs(SetAttr(obj, Head(pairs)[2], Head(pairs)[1]), Tail(pairs))

\* a dict display: a later pair with the same key replaces the earlier one
Dict(pairs) == SetAttrs(<<>>, [i \in DOMAIN pairs |-> <<pairs[i][2], pairs[i][1]>>])

\* names of the station header read_table is given
InfoNames ==
    <<"station", "name", "state", "tzoffset", "latitude", "longitude", "elevation">>

\* the column-to-name mapping of the setattr loop
ColumnNames == <<
    <<"DateTime", "datetime">>,
    <<"Date (MM/DD/YYYY)", "date">>,
    <<"Time (HH:MM)", "hour">>,
    <<"ETR (W/m^2)", "etr">>,
    <<"ETRN (W/m^2)", "etrn">>,
    <<"GHI (W/m^2)", "ghi">>,
    <<"DNI (W/m^2)", "dni">>,
    <<"DHI (W/m^2)", "dhi">>,
    <<"GH illum (lx)", "ghillum">>,
    <<"DN illum (lx)", "dnillum">>,
    <<"DH illum (lx)", "dhillum">>,
    <<"Zenith lum (cd/m^2)", "zenlu ">>,
    <<"TotCld (tenths)", "totcld">>,
    <<"OpqCld (tenths)", "opqcld">>,
    <<"Dry-bulb (C)", "drybulb">>,
    <<"Dew-point (C)", "dewpoint">>,
    <<"RHum (%)", "rhum">>,
    <<"Pressure (mbar)", "pressure">>,
    <<"Wdir (degrees)", "wdir">>,
    <<"Wspd (m/s)", "wspd">>,
    <<"Hvis (m)", "hvis">>,
    <<"CeilHgt (m)", "ceilhgt">>,
    <<"Pwat (cm)", "pwat">>,
    <<"AOD (unitless)", "aod">>,
    <<"Alb (unitless)", "alb">>,
    <<"Lprecip depth (mm)", "lprecipdepth">>,
    <<"Lprecip quantity (hr)", "lprecipquantity">> >>

\* the units dictionary, as it is written
UnitPairs == <<
    <<"etr", "W/m^2">>,
    <<"etrn", "W/m^2">>,
    <<"ghi", "W/m^2">>,
    <<"dni", "W/m^2">>,
    <<"dhi", "W/m^2">>,
    <<"ghillum", "lx">>,
    <<"ghillum", "lx">>,
    <<"dnillum", "lx">>,
    <<"zenlu", "cd/m^2 ">>,
    <<"totcld", "0.1unit">>,
    <<"opqcld", "0.1unit">>,
    <<"drybulb", "degC">>,
    <<"dewpoint", "degC">>,
    <<"rhum", "%">>,
    <<"pressure", "mbar">>,
    <<"wdir", "deg">>,
    <<"wspd", "m/s">>,
    <<"hvis", "m">>,
    <<"ceilhgt", "m">>,
    <<"pwat", "cm">>,
    <<"aod", "unit">>,
    <<"alb", "unit">>,
    <<"lprecipdepth", "mm">>,
    <<"lprecipquantity", "hr">> >>

LoadKeep == UNCHANGED <<station, coerce_year, cacheVars, concVars, timeVars>>

\* info = pandas.read_table(filename, ..., nrows=1, ...) and the setattr of
\* its seven columns
ReadInfo ==
    /\ lpc = "info"
    /\ self' = SetAttrs(self, [i \in DOMAIN InfoNames |-> <<station.info[i], InfoNames[i]>>])
    /\ lpc' = IF RowsRead(station) = 0 THEN "attrs" ELSE "rows"
    /\ UNCHANGED <<nread, prevRow, curRow>>
    /\ LoadKeep

\* one data row of pandas.read_table(filename, ..., nrows=8760, converters=...)
\* and its entry in the DateTime column; a value the datetime module refuses
\* raises ValueError out of the constructor
ReadRow ==
    /\ lpc = "rows"
    /\ LET row == DecodeRow(RowText(station, nread), coerce_year)
       IN  IF RowAccepted(row)
           THEN /\ nread' = nread + 1
                /\ prevRow' = curRow
                /\ curRow' = row
                /\ lpc' = IF nread + 1 = RowsRead(station) THEN "attrs" ELSE "rows"
           ELSE /\ lpc' = "ValueError"
                /\ UNCHANGED <<nread, prevRow, curRow>>
    /\ UNCHANGED self
    /\ LoadKeep

\* self.dataframe is bound, and each mapped column is set as an attribute
SetColumns ==
    /\ lpc = "attrs"
    /\ self' = SetAttrs(SetAttr(self, "dataframe", [rows |-> nread]), ColumnNames)
    /\ lpc' = "units"
    /\ UNCHANGED <<nread, prevRow, curRow>>
    /\ LoadKeep

\* self.units = {...}
SetUnits ==
    /\ lpc = "units"
    /\ self' = SetAttr(self, "units", Dict(UnitPairs))
    /\ lpc' = "done"
    /\ UNCHANGED <<nread, prevRow, curRow>>
    /\ LoadKeep

\* the years a station file takes its months from, and the coerce_year
\* arguments: None, the year of the unit test, and the year after
FileYears == {1995, 1996}
CoerceYears == {<<>>, <<2020>>, <<2021>>}

\* the lengths of the data blocks that are not of 8760 rows
RowCounts == {2, NRows - 1, NRows + 1}

\* a file whose months up to June are of year ya and the others of year yb
StationFile(ya, yb, n, mi) ==
    [years |-> [m \in 1..12 |-> IF m <= 6 THEN ya ELSE yb], nrows |-> n, minute |-> mi,
     info |-> <<"703925", "ADAK NAS", "AK", "-10.0", "51.883", "-176.650", "5">>]

InitLoad ==
    /\ station \in {StationFile(ya, yb, NRows, 0) : ya \in FileYears, yb \in FileYears}
                   \cup {StationFile(1995, 1995, n, 0) : n \in RowCounts}
    /\ coerce_year \in CoerceYears
    /\ lpc = "info"
    /\ nread = 0
    /\ prevRow = None
    /\ curRow = None
    /\ self = <<>>
    /\ CacheStart({<<>>}) /\ ConcIdle /\ TimeIdle

NextLoad == ReadInfo \/ ReadRow \/ SetColumns \/ SetUnits

SpecLoad == InitLoad /\ [][NextLoad]_vars

\* get_time applied to one time label, under a coerce_year argument
Minutes == {0, 30, 59}

InitTime ==
    /\ tin \in [hour : 1..24, minute : Minutes]
    /\ tout = <<>>
    /\ coerce_year \in CoerceYears
    /\ station = None /\ lpc = "idle" /\ nread = 0
    /\ prevRow = None /\ curRow = None /\ self = None
    /\ CacheStart({<<>>}) /\ ConcIdle

ApplyGetTime ==
    /\ tout = <<>>
    /\ tout' = <<get_time(FormatTime(tin.hour, tin.minute))>>
    /\ UNCHANGED <<tin, cacheVars, concVars, loadVars>>

NextTime == ApplyGetTime

SpecTime == InitTime /\ [][NextTime]_vars

(***************************************************************************)
(* Claims about the loader                                                 *)
(***************************************************************************)
\* date.toordinal() and the hours since the start of year 1 of a DateTime:
\* two DateTime values are one hour apart when these differ by 1
DaysBeforeYear(y) ==
    (y - 1) * 365 + ((y - 1) \div 4) - ((y - 1) \div 100) + ((y - 1) \div 400)

RECURSIVE DaysBeforeMonth(_, _)
DaysBeforeMonth(y, m) ==
    IF m = 1 THEN 0 ELSE DaysBeforeMonth(y, m - 1) + DaysInMonth(y, m - 1)

HourOrdinal(dt) ==
    (DaysBeforeYear(dt.year) + DaysBeforeMonth(dt.year, dt.month) + dt.day) * 24 + dt.hour

Loaded == lpc \in {"units", "done"}

\* every row read so far is exactly one hour after the one before it, and a
\* loaded object holds exactly 8760 rows
HourlySteps ==
    /\ nread >= 2 =>
          HourOrdinal(curRow.DateTime) = HourOrdinal(prevRow.DateTime) + 1
    /\ Loaded => self["dataframe"].rows = NRows

\* the years the dates of the loaded rows are in
TargetYears ==
    IF Truthy(coerce_year) THEN {coerce_year[1]}
    ELSE {station.years[m] : m \in 1..12}

\* C3 as stated: for every valid station file (8760 rows) and coerce_year
\* given or None, the loaded object has 8760 rows, each DateTime exactly one
\* hour after the previous.
C3_HourlyAnyYear == station.nrows = NRows => HourlySteps

\* C3 amended: for every valid station file whose rows all end up in one
\* year that is not a leap year (coerce_year is such a year, or coerce_year
\* is None and every month of the file is of the same such year), the loaded
\* object has 8760 rows, each DateTime exactly one hour after the previous.
C3_HourlyOneCommonYear ==
    (/\ station.nrows = NRows
     /\ Cardinality(TargetYears) = 1
     /\ \A y \in TargetYears : ~IsLeap(y)) => HourlySteps

\* C3 witness: a file that mixes two source years, loaded whole with
\* coerce_year 2021
C3_Witness ==
    /\ lpc = "done" /\ nread = NRows /\ station.nrows = NRows
    /\ coerce_year = <<2021>>
    /\ station.years[1] # station.years[12]

\* C4: year coercion. With coerce_year = Y, the date of every row read has
\* year Y and the month and day of the source row, and so has its DateTime;
\* with coerce_year None the date has the year of the source row.
C4_YearCoercion ==
    nread >= 1 =>
        LET src == RowFields(station, nread - 1)
        IN  /\ coerce_year # <<>> =>
                 /\ curRow.date = [year |-> coerce_year[1], month |-> src.month,
                                   day |-> src.day]
                 /\ curRow.DateTime.year = coerce_year[1]
                 /\ curRow.DateTime.month = src.month
                 /\ curRow.DateTime.day = src.day
            /\ coerce_year = <<>> =>
                 curRow.date = [year |-> src.year, month |-> src.month, day |-> src.day]

\* C4 witness: the last row, of December 31, read with coerce_year 2020 from
\* a file whose December is of 1995
C4_Witness ==
    /\ nread = NRows /\ coerce_year = <<2020>>
    /\ RowFields(station, nread - 1).year = 1995
    /\ curRow.date = [year |-> 2020, month |-> 12, day |-> 31]

\* C5: row-count validation. A station file whose data block does not have
\* exactly 8760 rows is never loaded: no dataframe is bound and the
\* constructor does not complete.
C5_RowCount ==
    station.nrows # NRows => ("dataframe" \notin DOMAIN self /\ lpc # "done")

\* the columns of the mapping that hold a measurement
TimeColumns == {"DateTime", "Date (MM/DD/YYYY)", "Time (HH:MM)"}

\* C7: unit lookup. On a loaded object, every name the mapping gives a
\* measurement column is a key of the units dictionary, with a non-empty unit.
C7_Units ==
    lpc = "done" =>
        \A i \in DOMAIN ColumnNames :
            ColumnNames[i][1] \notin TimeColumns =>
                /\ ColumnNames[i][2] \in DOMAIN self
                /\ ColumnNames[i][2] \in DOMAIN self["units"]
                /\ self["units"][ColumnNames[i][2]] # ""

\* C8: hour decoding. For a label HH:MM with HH in 1..24 the decoded hour is
\* HH - 1, within 0..23, and the minutes are dropped, whatever coerce_year is.
C8_HourDecoding ==
    tout # <<>> =>
        /\ tout[1].hour = tin.hour - 1
        /\ tout[1].hour \in 0..23
        /\ tout[1].minute = 0

\* C8 witness: the label 24:30 decoded under coerce_year 2020
C8_Witness ==
    /\ tout # <<>> /\ tin.hour = 24 /\ tin.minute = 30
    /\ coerce_year = <<2020>>
    /\ tout[1].hour = 23

====
